---- MODULE Spec2Model ----
(***************************************************************************)
(* Incident-remediation orchestrator (Azure Functions, five variants).     *)
(*                                                                         *)
(*   Spec          finaleditionjan14.py: alert_ingest and teams_action on  *)
(*                 the in-process FIX_STORE, teams_action running on       *)
(*                 several worker threads at once.                         *)
(*   SpecVariants  ver1.py, ver2.py, ver4.py, ver5.py: the stateless       *)
(*                 handlers and the collaborators they call.               *)
(*   SpecExpiry    finaleditionjan14.py with a clock ticking between the   *)
(*                 requests.                                               *)
(*   SpecExecutor  the executors command by command: ver4.py run_on_vm,    *)
(*                 ver2.py run_remote_commands, and the runCommand POST of *)
(*                 finaleditionjan14.py, with the commands on the host.    *)
(*   SpecExtract   ver4.py approval_callback's command extraction, applied *)
(*                 to every advisor text up to MaxTextLen tokens.          *)
(***************************************************************************)
EXTENDS Integers, Sequences, FiniteSets, TLC

VARIABLES
    FIX_STORE,   \* finaleditionjan14.py:21  fix_id -> stored commands value
    nextId,      \* the next fresh uuid4 (finaleditionjan14.py:106)
    issued,      \* history: fix_id -> commands value of the payload that created it
    cards,       \* fix_ids whose approval card reached the Teams channel
    rejected,    \* history: fix_ids whose card's Reject link was followed and answered
    vmLog,       \* runCommand submissions to the VM, in order
    thr,         \* worker threads: the request each handles and its response
    cur,         \* ver1/ver2/ver4/ver5: the request handled last, with its trace
    v4cards,     \* ver4: bodies of the Approve actions posted to the channel
    xtext,       \* SpecExtract: the advisor text under extraction
    xcommands,   \* SpecExtract: the extracted command list
    xran,        \* SpecExtract: what run_on_vm was invoked with
    xpc,         \* SpecExtract: position in approval_callback
    now,         \* SpecExpiry: the time, in units of the clock
    createdAt,   \* history: fix_id -> the time alert_ingest stored it
    run          \* SpecExecutor: one run of the executor, and the commands on the host

vars == <<FIX_STORE, nextId, issued, cards, rejected, vmLog, thr,
          cur, v4cards, xtext, xcommands, xran, xpc, now, createdAt, run>>

finalVars == <<FIX_STORE, nextId, issued, cards, rejected, vmLog, thr>>
variantVars == <<cur, v4cards>>
extractVars == <<xtext, xcommands, xran, xpc>>
clockVars == <<now, createdAt>>
execVars == <<run>>

(***************************************************************************)
(* Bounds                                                                  *)
(***************************************************************************)
NumThreads == 2
MaxFix == 2
MaxTextLen == 5      \* SpecExtract: tokens of an advisor text
MaxCards == 1        \* SpecVariants: ver4 approval cards in the channel
MaxAge == 1          \* SpecExpiry: the age beyond which a pending request is expired

\* SpecExpiry: the clock stops once a request of time 0 is older than MaxAge
MaxNow == MaxAge + 1
MaxPlanLen == 3      \* SpecExecutor: commands of a plan

Threads == 1..NumThreads
FixIds == 1..MaxFix

(***************************************************************************)
(* Python values of the JSON payload fields                                *)
(***************************************************************************)
PyMissing == [t |-> "missing", v |-> <<>>]   \* key absent: .get() gives None
PyNull == [t |-> "null", v |-> <<>>]         \* JSON null
PyStr == [t |-> "str", v |-> <<>>]           \* a non-empty string (truthy, no list)
PyList(s) == [t |-> "list", v |-> s]
PyUnset == [t |-> "unset", v |-> <<>>]       \* a local the handler never assigned

\* bool(x) in Python
Truthy(x) == \/ x.t = "str"
             \/ x.t = "list" /\ x.v # <<>>

PlanLists == {<<"echo a", "echo b">>, <<"echo b">>}

CommandValues == {PyMissing, PyNull, PyStr, PyList(<<>>)} \cup {PyList(s) : s \in PlanLists}

(***************************************************************************)
(* finaleditionjan14.py                                                    *)
(***************************************************************************)
\* The JSON bodies alert_ingest is sent.  shape: what req.get_json() gives.
\* An object has every field right, or exactly one field wrong.
ObjectPayload(a, s, e, c) ==
    [shape |-> "object", alertname |-> a, summary |-> s, explanation |-> e, commands |-> c]

IngestPayloads ==
    {[shape |-> "invalid", alertname |-> PyMissing, summary |-> PyMissing,
      explanation |-> PyMissing, commands |-> PyMissing],
     [shape |-> "array", alertname |-> PyMissing, summary |-> PyMissing,
      explanation |-> PyMissing, commands |-> PyMissing]}
    \cup {ObjectPayload(PyStr, PyStr, PyStr, c) : c \in CommandValues}
    \cup {ObjectPayload(PyMissing, PyStr, PyStr, PyList(s)) : s \in PlanLists}
    \cup {ObjectPayload(PyStr, PyMissing, PyStr, PyList(s)) : s \in PlanLists}
    \cup {ObjectPayload(PyStr, PyStr, PyMissing, PyList(s)) : s \in PlanLists}

\* all([alertname, summary, explanation, commands])
IngestFields(p) ==
    Truthy(p.alertname) /\ Truthy(p.summary) /\ Truthy(p.explanation) /\ Truthy(p.commands)

\* not (not isinstance(commands, list) or not commands)
IngestCommandsMutant(c) == Truthy(c)
IngestCommands(c) == c.t = "list" /\ c.v # <<>>

\* FIX_STORE[fix_id] = commands
StorePutMutant(store, fid, c) ==
    [x \in DOMAIN store \cup {fid} |-> c]
StorePut(store, fid, c) ==
    [x \in DOMAIN store \cup {fid} |-> IF x = fid THEN c ELSE store[x]]

\* not (not fix_id or fix_id not in FIX_STORE); fix_id 0 is an absent parameter
FixKnownMutant(store, fid) == fid # 0
FixKnown(store, fid) == fid # 0 /\ fid \in DOMAIN store

\* FIX_STORE.pop(fix_id): the store it leaves
StorePopMutant(store, fid) == store
StorePop(store, fid) == [x \in DOMAIN store \ {fid} |-> store[x]]

\* send_teams: the webhook URL may be unset, and requests.post may raise
TeamsOutcomes == {"posted", "nourl", "raise"}

IdleThread ==
    [pc |-> "idle", action |-> "none", fix_id |-> 0, commands |-> PyUnset,
     response |-> "none"]

InitFinal ==
    /\ FIX_STORE = << >>
    /\ nextId = 1
    /\ issued = << >>
    /\ cards = {}
    /\ rejected = {}
    /\ vmLog = << >>
    /\ thr = [t \in Threads |-> IdleThread]

\* The response alert_ingest gives payload p when FIX_STORE can take an entry.
\* "crash": an exception outside any try (data.get on a non-object; requests.post
\* raising in send_teams), which the Functions host answers with a 500.
IngestResponse(p, teams) ==
    CASE p.shape = "invalid" -> "invalid_json"
      [] p.shape = "array" -> "crash"
      [] ~IngestFields(p) -> "missing_fields"
      [] ~IngestCommands(p.commands) -> "bad_commands"
      [] teams = "raise" -> "crash"
      [] OTHER -> "sent"

\* FIX_STORE[fix_id] = commands is reached
IngestStores(p) ==
    p.shape = "object" /\ IngestFields(p) /\ IngestCommands(p.commands)

\* alert_ingest, whole handler, on worker thread t
AlertIngest(t, p, teams) ==
    /\ thr[t].pc = "idle"
    /\ IF IngestStores(p)
       THEN /\ nextId <= MaxFix
            /\ FIX_STORE' = StorePut(FIX_STORE, nextId, p.commands)
            /\ issued' = [x \in DOMAIN issued \cup {nextId} |->
                            IF x = nextId THEN p.commands ELSE issued[x]]
            /\ nextId' = nextId + 1
            /\ createdAt' = [x \in DOMAIN createdAt \cup {nextId} |->
                               IF x = nextId THEN now ELSE createdAt[x]]
            /\ cards' = IF teams = "posted" THEN cards \cup {nextId} ELSE cards
            /\ thr' = [thr EXCEPT ![t] =
                 [pc |-> "done", action |-> "alert_ingest", fix_id |-> nextId,
                  commands |-> p.commands, response |-> IngestResponse(p, teams)]]
       ELSE /\ teams = "posted"
            /\ thr' = [thr EXCEPT ![t] =
                 [pc |-> "done", action |-> "alert_ingest", fix_id |-> 0,
                  commands |-> IF p.shape = "object" THEN p.commands ELSE PyUnset,
                  response |-> IngestResponse(p, teams)]]
            /\ UNCHANGED <<FIX_STORE, nextId, issued, cards, createdAt>>
    /\ UNCHANGED <<rejected, vmLog, now>>
    /\ UNCHANGED <<variantVars, extractVars, execVars>>

\* teams_action up to the membership test
TeamsActionEntry(t, action, fid) ==
    /\ thr[t].pc = "idle"
    /\ thr' = [thr EXCEPT ![t] =
         IF action = "reject"
         THEN [IdleThread EXCEPT !.pc = "done", !.action = action, !.response = "rejected"]
         ELSE IF action # "run_fix"
         THEN [IdleThread EXCEPT !.pc = "done", !.action = action,
                                 !.response = "invalid_action"]
         ELSE IF ~FixKnown(FIX_STORE, fid)
         THEN [IdleThread EXCEPT !.pc = "done", !.action = action, !.fix_id = fid,
                                 !.response = "not_found"]
         ELSE [IdleThread EXCEPT !.pc = "pop", !.action = action, !.fix_id = fid]]

\* a GET of teams_action by any caller
TeamsActionCall(t, action, fid) ==
    /\ TeamsActionEntry(t, action, fid)
    /\ UNCHANGED <<FIX_STORE, nextId, issued, cards, rejected, vmLog>>
    /\ UNCHANGED <<variantVars, extractVars, clockVars, execVars>>

\* the Reject link of the card of request f: it carries action=reject and no fix_id
RejectFromCard(t, f) ==
    /\ f \in cards
    /\ TeamsActionEntry(t, "reject", 0)
    /\ rejected' = rejected \cup {f}
    /\ UNCHANGED <<FIX_STORE, nextId, issued, cards, vmLog>>
    /\ UNCHANGED <<variantVars, extractVars, clockVars, execVars>>

\* commands = FIX_STORE.pop(fix_id); a KeyError reaches the except clause
TeamsActionPop(t) ==
    /\ thr[t].pc = "pop"
    /\ IF thr[t].fix_id \in DOMAIN FIX_STORE
       THEN /\ thr' = [thr EXCEPT ![t].pc = "execute",
                                  ![t].commands = FIX_STORE[thr[t].fix_id]]
            /\ FIX_STORE' = StorePop(FIX_STORE, thr[t].fix_id)
       ELSE /\ thr' = [thr EXCEPT ![t].pc = "done", ![t].response = "error"]
            /\ UNCHANGED FIX_STORE
    /\ UNCHANGED <<nextId, issued, cards, rejected, vmLog>>
    /\ UNCHANGED <<variantVars, extractVars, clockVars, execVars>>

ExecOutcomes == {"token_raise", "post_raise", "status_fail", "status_ok"}

\* as TeamsActionExecute, but a failed execution puts the entry back
TeamsActionExecuteMutant(t, o) ==
    /\ thr[t].pc = "execute"
    /\ vmLog' = IF o = "token_raise" THEN vmLog
                ELSE Append(vmLog, [fix_id |-> thr[t].fix_id, script |-> thr[t].commands])
    /\ thr' = [thr EXCEPT ![t].pc = "done",
                          ![t].response = CASE o = "status_ok" -> "success"
                                            [] o = "status_fail" -> "exec_failed"
                                            [] OTHER -> "error"]
    /\ FIX_STORE' = IF o = "status_ok" THEN FIX_STORE
                    ELSE StorePut(FIX_STORE, thr[t].fix_id, thr[t].commands)
    /\ UNCHANGED <<nextId, issued, cards, rejected>>
    /\ UNCHANGED <<variantVars, extractVars, clockVars, execVars>>

\* get_token, then the runCommand POST with script = commands, then the response
TeamsActionExecute(t, o) ==
    /\ thr[t].pc = "execute"
    /\ vmLog' = IF o = "token_raise" THEN vmLog
                ELSE Append(vmLog, [fix_id |-> thr[t].fix_id, script |-> thr[t].commands])
    /\ thr' = [thr EXCEPT ![t].pc = "done",
                          ![t].response = CASE o = "status_ok" -> "success"
                                            [] o = "status_fail" -> "exec_failed"
                                            [] OTHER -> "error"]
    /\ UNCHANGED <<FIX_STORE, nextId, issued, cards, rejected>>
    /\ UNCHANGED <<variantVars, extractVars, clockVars, execVars>>

\* the response is sent and the worker thread takes the next request
HandlerReturn(t) ==
    /\ thr[t].pc = "done"
    /\ thr' = [thr EXCEPT ![t] = IdleThread]
    /\ UNCHANGED <<FIX_STORE, nextId, issued, cards, rejected, vmLog>>
    /\ UNCHANGED <<variantVars, extractVars, clockVars, execVars>>

\* Time passes; no handler reads the clock, and FIX_STORE holds no timestamp.
Tick ==
    /\ now < MaxNow
    /\ now' = now + 1
    /\ UNCHANGED <<createdAt, finalVars, variantVars, extractVars, execVars>>

ActionParams == {"reject", "run_fix", "other"}
\* 0: no fix_id parameter; MaxFix + 1: an id alert_ingest never issued
FixParams == 0..(MaxFix + 1)

Next ==
    \/ \E t \in Threads, p \in IngestPayloads, teams \in TeamsOutcomes : AlertIngest(t, p, teams)
    \/ \E t \in Threads, a \in ActionParams, f \in FixParams : TeamsActionCall(t, a, f)
    \/ \E t \in Threads, f \in FixIds : RejectFromCard(t, f)
    \/ \E t \in Threads : TeamsActionPop(t)
    \/ \E t \in Threads, o \in ExecOutcomes : TeamsActionExecute(t, o)
    \/ \E t \in Threads : HandlerReturn(t)

(***************************************************************************)
(* Advisor text and ver4.py's command extraction                           *)
(*   "sudo"  the four characters s u d o                                   *)
(*   "txt"   other text: no line break, no white space at either end, and  *)
(*           not starting with sudo (nor does a run of txt tokens)         *)
(*   "sp"    white space that is no line break                             *)
(*   "nl"    a line break                                                  *)
(***************************************************************************)
TextTokens == {"sudo", "txt", "sp", "nl"}

TextsUpTo(n) == UNION {[1..k -> TextTokens] : k \in 0..n}

\* The least index of s that holds tok; 0 when none does.
FirstIndex(s, tok) ==
    IF \E i \in DOMAIN s : s[i] = tok
    THEN CHOOSE i \in DOMAIN s : s[i] = tok /\ \A j \in 1..(i - 1) : s[j] # tok
    ELSE 0

\* str.splitlines(): no line after a final line break, none for the empty string
RECURSIVE SplitLines(_)
SplitLines(s) ==
    IF s = << >> THEN << >>
    ELSE LET k == FirstIndex(s, "nl")
         IN IF k = 0 THEN <<s>>
            ELSE <<SubSeq(s, 1, k - 1)>> \o SplitLines(SubSeq(s, k + 1, Len(s)))

\* str.strip()
RECURSIVE LStrip(_)
LStrip(s) == IF s # << >> /\ Head(s) \in {"sp", "nl"} THEN LStrip(Tail(s)) ELSE s

RECURSIVE RStrip(_)
RStrip(s) ==
    IF s # << >> /\ s[Len(s)] \in {"sp", "nl"} THEN RStrip(SubSeq(s, 1, Len(s) - 1)) ELSE s

StripMutant(s) == s
Strip(s) == RStrip(LStrip(s))

\* str.startswith("sudo")
StartsWithSudo(s) == s # << >> /\ Head(s) = "sudo"

\* line.strip().startswith("sudo")
KeepsLine(line) == StartsWithSudo(Strip(line))

\* [line for line in ai_solution.splitlines() if line.strip().startswith("sudo")]
ExtractCommands(ai_solution) == SelectSeq(SplitLines(ai_solution), KeepsLine)

(***************************************************************************)
(* ver1.py, ver2.py, ver4.py, ver5.py: collaborators                       *)
(***************************************************************************)
Incidents == {"disk-full", "cpu-high"}
Decisions == {"approve", "reject"}

\* generate_ai_remediation without an API key returns this sentence as the plan
UnconfiguredText == <<"txt">>

\* Advisor answers: no text, one command line, prose only, an indented command
\* line, and a command line followed by prose
AdvisorTexts ==
    {<< >>, <<"sudo", "sp", "txt">>, UnconfiguredText, <<"sp", "sudo">>,
     <<"sudo", "sp", "txt", "nl", "txt">>}

\* The SOP document the repository holds: ver4 reads sop["commands"], a list of
\* strings; ver2 and ver5 read sop["plan"], a list of {"cmd": ...}.
SopPlans == PlanLists \cup {<< >>}
NoSop == [kind |-> "none", cmds |-> << >>]
SopDocs == {[kind |-> "empty", cmds |-> << >>]}
           \cup [kind : {"commands", "plan"}, cmds : SopPlans]

\* What the GitHub contents API answers a lookup
RepoAnswers == {[status |-> st, doc |-> NoSop] : st \in {"raise", "404", "500"}}
               \cup {[status |-> "200", doc |-> d] : d \in SopDocs}

AdvisorOutcomes == {[kind |-> k, text |-> << >>] : k \in {"raise", "unconfigured"}}
                   \cup {[kind |-> "text", text |-> t] : t \in AdvisorTexts}

CallOutcomes == {"ok", "raise"}

\* run_on_vm / run_remote_commands: every command ran well; a command failed on
\* the host (exec_command reports no exit status); connect or exec_command raised
RunOutcomes == {"ok", "failed", "raise"}

\* ver4 lookup_sop_internal: None unless the status is 200
V4Lookup(a) == IF a.status = "200" THEN a.doc ELSE NoSop

\* ver4 `if sop:`
V4SopTruthyMutant(sop) == sop.kind \in {"none", "empty"}
V4SopTruthy(sop) == sop.kind \notin {"none", "empty"}

\* The lookup_sop endpoint as approval_callback and agent_webhook see it through
\* requests.get(...).json(): a status other than 200 and 404 gives no JSON body.
LookupSop(a) ==
    CASE a.status = "404" -> "notfound"
      [] a.status = "200" -> "found"
      [] OTHER -> "error"

Ev(call, kind, cmds, text) == [call |-> call, kind |-> kind, cmds |-> cmds, text |-> text]

\* The lookup as the trace records it: the status, or the kind of document found
LookupEv(a) ==
    Ev("lookup", IF a.status = "200" THEN a.doc.kind ELSE a.status, a.doc.cmds, << >>)

\* body: what req.get_json() makes of the request body
IdleCur ==
    [handler |-> "none", pc |-> "done", body |-> "object", incident |-> "none",
     decision |-> "none", text |-> << >>, sop |-> NoSop, commands |-> << >>, fromCard |-> FALSE,
     trace |-> << >>, response |-> "none"]

NewRequest(handler, pc, incident, decision) ==
    [IdleCur EXCEPT !.handler = handler, !.pc = pc, !.incident = incident,
                    !.decision = decision]

Step(c, ev, pc) == [c EXCEPT !.trace = Append(@, ev), !.pc = pc]
Finish(c, ev, response) ==
    [c EXCEPT !.trace = Append(@, ev), !.pc = "done", !.response = response]
\* an exception no handler catches: the Functions host answers 500
Crash(c, ev) == Finish(c, ev, "crash")

\* The handlers that call req.get_json() and index the body outside any try
UnguardedHandlers ==
    {"v4_alert_receiver", "v4_approval_callback", "v2_approval_callback",
     "v5_agent_webhook", "v5_approval_callback"}

\* data = req.get_json() on a body that is no JSON: ValueError, caught nowhere
InvalidJsonCrash(handler) ==
    /\ cur.pc = "done"
    /\ cur' = [NewRequest(handler, "done", "none", "none") EXCEPT
                 !.body = "invalid", !.response = "crash"]
    /\ UNCHANGED <<v4cards, finalVars, extractVars, clockVars, execVars>>

(***************************************************************************)
(* ver4.py                                                                 *)
(***************************************************************************)
V4AlertStart(incident) ==
    /\ cur.pc = "done"
    /\ Cardinality(v4cards) < MaxCards
    /\ cur' = NewRequest("v4_alert_receiver", "lookup", incident, "none")
    /\ UNCHANGED <<v4cards, finalVars, extractVars, clockVars, execVars>>

\* sop = lookup_sop_internal(incident); if sop: ... sop["commands"]
V4AlertLookup(a) ==
    /\ cur.handler = "v4_alert_receiver" /\ cur.pc = "lookup"
    /\ cur' = IF a.status = "raise" THEN Crash(cur, LookupEv(a))
              ELSE LET sop == V4Lookup(a)
                       c == [cur EXCEPT !.sop = sop]
                   IN IF ~V4SopTruthy(sop) THEN Step(c, LookupEv(a), "advisor")
                      ELSE IF sop.kind = "commands" THEN Step(c, LookupEv(a), "exec")
                      ELSE Crash(c, LookupEv(a))
    /\ UNCHANGED <<v4cards, finalVars, extractVars, clockVars, execVars>>

\* run_on_vm(sop["commands"])
V4AlertExec(ex) ==
    /\ cur.handler = "v4_alert_receiver" /\ cur.pc = "exec"
    /\ cur' = IF ex = "raise" THEN Crash(cur, Ev("exec", "raise", cur.sop.cmds, << >>))
              ELSE Step(cur, Ev("exec", ex, cur.sop.cmds, << >>), "notify_auto")
    /\ UNCHANGED <<v4cards, finalVars, extractVars, clockVars, execVars>>

\* as V4AlertNotifyAuto, but without the return after the report
V4AlertNotifyAutoMutant(tm) ==
    /\ cur.handler = "v4_alert_receiver" /\ cur.pc = "notify_auto"
    /\ cur' = IF tm = "raise" THEN Crash(cur, Ev("notify", "raise", << >>, << >>))
              ELSE Step(cur, Ev("notify", "auto_remediated", cur.sop.cmds, << >>), "advisor")
    /\ UNCHANGED <<v4cards, finalVars, extractVars, clockVars, execVars>>

\* send_teams_card(auto-remediated, the SOP commands); return
V4AlertNotifyAuto(tm) ==
    /\ cur.handler = "v4_alert_receiver" /\ cur.pc = "notify_auto"
    /\ cur' = IF tm = "raise" THEN Crash(cur, Ev("notify", "raise", << >>, << >>))
              ELSE Finish(cur, Ev("notify", "auto_remediated", cur.sop.cmds, << >>),
                          "auto remediated")
    /\ UNCHANGED <<v4cards, finalVars, extractVars, clockVars, execVars>>

\* ai_solution = generate_ai_remediation(incident, description)
V4AlertAdvisor(adv) ==
    /\ cur.handler = "v4_alert_receiver" /\ cur.pc = "advisor"
    /\ cur' = IF adv.kind = "raise" THEN Crash(cur, Ev("advisor", "raise", << >>, << >>))
              ELSE LET t == IF adv.kind = "unconfigured" THEN UnconfiguredText
                            ELSE adv.text
                   IN Step([cur EXCEPT !.text = t], Ev("advisor", adv.kind, << >>, t),
                           "notify_approval")
    /\ UNCHANGED <<v4cards, finalVars, extractVars, clockVars, execVars>>

\* send_teams_card(needs approval, ai_solution, [Approve Fix with the body])
V4AlertNotifyApproval(tm) ==
    /\ cur.handler = "v4_alert_receiver" /\ cur.pc = "notify_approval"
    /\ IF tm = "raise"
       THEN /\ cur' = Crash(cur, Ev("notify", "raise", << >>, << >>))
            /\ UNCHANGED <<v4cards, finalVars, extractVars, clockVars, execVars>>
       ELSE /\ cur' = Finish(cur, Ev("notify", "needs_approval", << >>, cur.text),
                             "approval sent")
            /\ v4cards' = v4cards \cup
                 {[incident |-> cur.incident, ai_solution |-> cur.text]}
    /\ UNCHANGED <<finalVars, extractVars, clockVars, execVars>>

\* approval_callback: the body is whatever the caller posts; the handler reads
\* incident and ai_solution, and no decision
V4CallbackStart(incident, text, decision) ==
    /\ cur.pc = "done"
    /\ cur' = IF incident = "none"
              THEN \* data["incident"]: KeyError
                   [NewRequest("v4_approval_callback", "done", incident, decision) EXCEPT
                      !.text = text, !.response = "crash"]
              ELSE [NewRequest("v4_approval_callback", "exec", incident, decision) EXCEPT
                      !.text = text,
                      !.commands = ExtractCommands(text),
                      !.fromCard = [incident |-> incident, ai_solution |-> text] \in v4cards]
    /\ UNCHANGED <<v4cards, finalVars, extractVars, clockVars, execVars>>

V4CallbackExec(ex) ==
    /\ cur.handler = "v4_approval_callback" /\ cur.pc = "exec"
    /\ cur' = IF ex = "raise" THEN Crash(cur, Ev("exec", "raise", cur.commands, << >>))
              ELSE Step(cur, Ev("exec", ex, cur.commands, << >>), "notify")
    /\ UNCHANGED <<v4cards, finalVars, extractVars, clockVars, execVars>>

V4CallbackNotify(tm) ==
    /\ cur.handler = "v4_approval_callback" /\ cur.pc = "notify"
    /\ cur' = IF tm = "raise" THEN Crash(cur, Ev("notify", "raise", << >>, << >>))
              ELSE Finish(cur, Ev("notify", "approved_executed", cur.commands, << >>),
                          "approved and executed")
    /\ UNCHANGED <<v4cards, finalVars, extractVars, clockVars, execVars>>

(***************************************************************************)
(* ver2.py approval_callback                                               *)
(***************************************************************************)
V2CallbackStart(incident, decision) ==
    /\ cur.pc = "done"
    /\ cur' = IF incident = "none"
              THEN \* data["incident"]: KeyError
                   [NewRequest("v2_approval_callback", "done", incident, decision) EXCEPT
                      !.response = "crash"]
              ELSE NewRequest("v2_approval_callback", "lookup", incident, decision)
    /\ UNCHANGED <<v4cards, finalVars, extractVars, clockVars, execVars>>

\* sop_lookup = requests.get(.../api/lookup_sop).json(); sop_lookup["sop"]["plan"]
V2CallbackLookup(a) ==
    /\ cur.handler = "v2_approval_callback" /\ cur.pc = "lookup"
    /\ cur' = CASE LookupSop(a) = "error" -> Crash(cur, LookupEv(a))
                [] LookupSop(a) = "notfound" -> Step(cur, LookupEv(a), "advisor")
                [] OTHER ->
                     IF a.doc.kind = "plan"
                     THEN Step([cur EXCEPT !.sop = a.doc, !.commands = a.doc.cmds],
                               LookupEv(a), "exec")
                     ELSE Crash([cur EXCEPT !.sop = a.doc], LookupEv(a))
    /\ UNCHANGED <<v4cards, finalVars, extractVars, clockVars, execVars>>

\* run_remote_commands(cmds) catches every exception and returns an error entry
V2CallbackExec(ex) ==
    /\ cur.handler = "v2_approval_callback" /\ cur.pc = "exec"
    /\ cur' = Step(cur, Ev("exec", IF ex = "raise" THEN "error" ELSE ex,
                           cur.commands, << >>), "notify_sop")
    /\ UNCHANGED <<v4cards, finalVars, extractVars, clockVars, execVars>>

V2CallbackAdvisor(adv) ==
    /\ cur.handler = "v2_approval_callback" /\ cur.pc = "advisor"
    /\ cur' = IF adv.kind # "text" THEN Crash(cur, Ev("advisor", "raise", << >>, << >>))
              ELSE Step([cur EXCEPT !.text = adv.text],
                        Ev("advisor", "text", << >>, adv.text), "notify_ai")
    /\ UNCHANGED <<v4cards, finalVars, extractVars, clockVars, execVars>>

V2CallbackNotify(tm) ==
    /\ cur.handler = "v2_approval_callback" /\ cur.pc \in {"notify_sop", "notify_ai"}
    /\ cur' = IF tm = "raise" THEN Crash(cur, Ev("notify", "raise", << >>, << >>))
              ELSE IF cur.pc = "notify_sop"
              THEN Finish(cur, Ev("notify", "executed_sop", cur.commands, << >>), "processed")
              ELSE Finish(cur, Ev("notify", "ai_suggestion", << >>, cur.text), "processed")
    /\ UNCHANGED <<v4cards, finalVars, extractVars, clockVars, execVars>>

(***************************************************************************)
(* ver1.py approval_callback: every exception is answered with a 500       *)
(***************************************************************************)
V1Decisions == Decisions \cup {"none", "other"}

V1CallbackStart(incident, decision) ==
    /\ cur.pc = "done"
    /\ cur' = LET c == NewRequest("v1_approval_callback", "lookup", incident, decision)
              IN CASE decision = "none" \/ incident = "none" ->
                        [c EXCEPT !.pc = "done", !.response = "400 missing"]
                   [] decision = "approve" -> c
                   [] decision = "reject" -> [c EXCEPT !.pc = "done", !.response = "rejected"]
                   [] OTHER -> [c EXCEPT !.pc = "done", !.response = "400 invalid"]
    /\ UNCHANGED <<v4cards, finalVars, extractVars, clockVars, execVars>>

\* req.get_json() raises inside the try: the except clause answers 500
V1CallbackInvalidJson ==
    /\ cur.pc = "done"
    /\ cur' = [NewRequest("v1_approval_callback", "done", "none", "none") EXCEPT
                 !.body = "invalid", !.response = "500 error"]
    /\ UNCHANGED <<v4cards, finalVars, extractVars, clockVars, execVars>>

V1CallbackLookup(a) ==
    /\ cur.handler = "v1_approval_callback" /\ cur.pc = "lookup"
    /\ cur' = CASE LookupSop(a) = "error" -> Finish(cur, LookupEv(a), "500 error")
                [] LookupSop(a) = "notfound" -> Step(cur, LookupEv(a), "advisor")
                [] OTHER -> Finish([cur EXCEPT !.sop = a.doc], LookupEv(a), "approved_sop")
    /\ UNCHANGED <<v4cards, finalVars, extractVars, clockVars, execVars>>

V1CallbackAdvisor(adv) ==
    /\ cur.handler = "v1_approval_callback" /\ cur.pc = "advisor"
    /\ cur' = IF adv.kind # "text"
              THEN Finish(cur, Ev("advisor", "raise", << >>, << >>), "500 error")
              ELSE Step([cur EXCEPT !.text = adv.text],
                        Ev("advisor", "text", << >>, adv.text), "notify_ai")
    /\ UNCHANGED <<v4cards, finalVars, extractVars, clockVars, execVars>>

V1CallbackNotify(tm) ==
    /\ cur.handler = "v1_approval_callback" /\ cur.pc = "notify_ai"
    /\ cur' = IF tm = "raise"
              THEN Finish(cur, Ev("notify", "raise", << >>, << >>), "500 error")
              ELSE Finish(cur, Ev("notify", "ai_suggestion", << >>, cur.text), "approved_ai")
    /\ UNCHANGED <<v4cards, finalVars, extractVars, clockVars, execVars>>

(***************************************************************************)
(* ver5.py                                                                 *)
(***************************************************************************)
V5WebhookStart(incident) ==
    /\ cur.pc = "done"
    /\ cur' = NewRequest("v5_agent_webhook", "lookup", incident, "none")
    /\ UNCHANGED <<v4cards, finalVars, extractVars, clockVars, execVars>>

V5WebhookLookup(a) ==
    /\ cur.handler = "v5_agent_webhook" /\ cur.pc = "lookup"
    /\ cur' = CASE LookupSop(a) = "error" -> Crash(cur, LookupEv(a))
                [] LookupSop(a) = "notfound" -> Finish(cur, LookupEv(a), "no_sop_found")
                [] OTHER ->
                     \* sop.get("plan", []): a document without a plan gives no commands
                     Step([cur EXCEPT !.sop = a.doc,
                                      !.commands = IF a.doc.kind = "plan" THEN a.doc.cmds
                                                   ELSE << >>],
                          LookupEv(a), "notify_approval")
    /\ UNCHANGED <<v4cards, finalVars, extractVars, clockVars, execVars>>

V5WebhookNotify(tm) ==
    /\ cur.handler = "v5_agent_webhook" /\ cur.pc = "notify_approval"
    /\ cur' = IF tm = "raise" THEN Crash(cur, Ev("notify", "raise", << >>, << >>))
              ELSE Finish(cur, Ev("notify", "needs_approval", cur.commands, << >>),
                          "waiting_for_approval")
    /\ UNCHANGED <<v4cards, finalVars, extractVars, clockVars, execVars>>

\* approval_callback echoes the decision and the incident
V5Callback(incident, decision) ==
    /\ cur.pc = "done"
    /\ cur' = [NewRequest("v5_approval_callback", "done", incident, decision) EXCEPT
                 !.response = "echo"]
    /\ UNCHANGED <<v4cards, finalVars, extractVars, clockVars, execVars>>

NextVariants ==
    \/ \E i \in Incidents : V4AlertStart(i)
    \/ \E a \in RepoAnswers : V4AlertLookup(a)
    \/ \E ex \in RunOutcomes : V4AlertExec(ex)
    \/ \E tm \in CallOutcomes : V4AlertNotifyAuto(tm)
    \/ \E adv \in AdvisorOutcomes : V4AlertAdvisor(adv)
    \/ \E tm \in CallOutcomes : V4AlertNotifyApproval(tm)
    \/ \E i \in Incidents \cup {"none"}, t \in AdvisorTexts, d \in Decisions \cup {"none"} :
          V4CallbackStart(i, t, d)
    \/ \E ex \in RunOutcomes : V4CallbackExec(ex)
    \/ \E tm \in CallOutcomes : V4CallbackNotify(tm)
    \/ \E i \in Incidents \cup {"none"}, d \in Decisions \cup {"none"} : V2CallbackStart(i, d)
    \/ \E a \in RepoAnswers : V2CallbackLookup(a)
    \/ \E ex \in RunOutcomes : V2CallbackExec(ex)
    \/ \E adv \in AdvisorOutcomes : V2CallbackAdvisor(adv)
    \/ \E tm \in CallOutcomes : V2CallbackNotify(tm)
    \/ \E i \in Incidents \cup {"none"}, d \in V1Decisions : V1CallbackStart(i, d)
    \/ \E a \in RepoAnswers : V1CallbackLookup(a)
    \/ \E adv \in AdvisorOutcomes : V1CallbackAdvisor(adv)
    \/ \E tm \in CallOutcomes : V1CallbackNotify(tm)
    \/ \E i \in Incidents : V5WebhookStart(i)
    \/ \E a \in RepoAnswers : V5WebhookLookup(a)
    \/ \E tm \in CallOutcomes : V5WebhookNotify(tm)
    \/ \E i \in Incidents \cup {"none"}, d \in Decisions \cup {"none"} : V5Callback(i, d)
    \/ \E h \in UnguardedHandlers : InvalidJsonCrash(h)
    \/ V1CallbackInvalidJson

(***************************************************************************)
(* The executors, command by command                                       *)
(*   host[i]: "none" command i was not started, "running", "done" it ended *)
(*   with status 0, "failed" it ended with another status, "killed" its    *)
(*   session went away while it ran                                        *)
(***************************************************************************)
\* What the executor gives its caller.  ran: the commands its result names.
Ret(kind, ran) == [kind |-> kind, ran |-> ran]

IdleRun ==
    [variant |-> "none", pc |-> "idle", n |-> 0, k |-> 0, host |-> << >>,
     conn |-> "closed", got |-> {}, ret |-> Ret("none", {}), report |-> "none"]

\* The handler calls the executor with a plan of n commands
RunStart(variant, n) ==
    /\ run.pc = "idle"
    /\ run' = [IdleRun EXCEPT !.variant = variant, !.n = n, !.k = 1,
                              !.pc = IF variant = "final" THEN "post" ELSE "connect",
                              !.host = [i \in 1..n |-> "none"]]
    /\ UNCHANGED <<finalVars, variantVars, extractVars, clockVars>>

\* ver4 run_on_vm: ssh.connect(...); an exception leaves run_on_vm
V4Connect(o) ==
    /\ run.variant = "v4" /\ run.pc = "connect"
    /\ run' = IF o = "raise"
              THEN [run EXCEPT !.pc = "returned", !.ret = Ret("raised", {})]
              ELSE [run EXCEPT !.pc = "loop", !.conn = "open"]
    /\ UNCHANGED <<finalVars, variantVars, extractVars, clockVars>>

\* for cmd in commands: ssh.exec_command(cmd).  exec_command returns once the
\* command is started; nothing waits for its exit status.
V4ExecCommand(o) ==
    /\ run.variant = "v4" /\ run.pc = "loop" /\ run.k <= run.n
    /\ run' = IF o = "raise"
              THEN [run EXCEPT !.pc = "returned", !.conn = "lost",
                               !.ret = Ret("raised", {})]
              ELSE [run EXCEPT !.host[run.k] = "running", !.k = @ + 1]
    /\ UNCHANGED <<finalVars, variantVars, extractVars, clockVars>>

\* ssh.close(); run_on_vm returns None
V4Close ==
    /\ run.variant = "v4" /\ run.pc = "loop" /\ run.k > run.n
    /\ run' = [run EXCEPT !.pc = "returned", !.conn = "closed", !.ret = Ret("None", {})]
    /\ UNCHANGED <<finalVars, variantVars, extractVars, clockVars>>

\* alert_receiver / approval_callback after run_on_vm: send_teams_card
\* ("Auto-remediated" / "Approved & Executed"); an exception of run_on_vm has
\* left the handler
V4Report ==
    /\ run.variant = "v4" /\ run.pc = "returned"
    /\ run' = [run EXCEPT !.pc = "reported",
                          !.report = IF run.ret.kind = "raised" THEN "crash" ELSE "success"]
    /\ UNCHANGED <<finalVars, variantVars, extractVars, clockVars>>

\* ver2 run_remote_commands: credentials, ssh.connect; every exception is
\* caught and answered [{"error": ...}]
V2Connect(o) ==
    /\ run.variant = "v2" /\ run.pc = "connect"
    /\ run' = IF o = "raise"
              THEN [run EXCEPT !.pc = "returned", !.ret = Ret("error", {})]
              ELSE [run EXCEPT !.pc = "loop", !.conn = "open"]
    /\ UNCHANGED <<finalVars, variantVars, extractVars, clockVars>>

\* stdin, stdout, stderr = ssh.exec_command(c)
V2ExecCommand(o) ==
    /\ run.variant = "v2" /\ run.pc = "loop" /\ run.k <= run.n
    /\ run' = IF o = "raise"
              THEN [run EXCEPT !.pc = "returned", !.conn = "lost",
                               !.ret = Ret("error", {})]
              ELSE [run EXCEPT !.host[run.k] = "running", !.pc = "read"]
    /\ UNCHANGED <<finalVars, variantVars, extractVars, clockVars>>

\* results.append({cmd, stdout.read(), stderr.read()}): read() returns when the
\* command has ended
V2Read ==
    /\ run.variant = "v2" /\ run.pc = "read"
    /\ run.host[run.k] \in {"done", "failed"}
    /\ run' = [run EXCEPT !.got = @ \cup {run.k}, !.k = @ + 1, !.pc = "loop"]
    /\ UNCHANGED <<finalVars, variantVars, extractVars, clockVars>>

\* ssh.close(); return results
V2Close ==
    /\ run.variant = "v2" /\ run.pc = "loop" /\ run.k > run.n
    /\ run' = [run EXCEPT !.pc = "returned", !.conn = "closed",
                          !.ret = Ret("results", run.got)]
    /\ UNCHANGED <<finalVars, variantVars, extractVars, clockVars>>

\* approval_callback posts "Executed SOP for ..." with json.dumps(results)
V2Report ==
    /\ run.variant = "v2" /\ run.pc = "returned"
    /\ run' = [run EXCEPT !.pc = "reported",
                          !.report = IF run.ret.kind = "error" THEN "error" ELSE "results"]
    /\ UNCHANGED <<finalVars, variantVars, extractVars, clockVars>>

\* The answers of the runCommand POST: an exception (also the 60 s timeout), a
\* status other than 200 and 202, 200 with the script ended, 202 with the
\* script accepted and running
PostOutcomes == {"raise", "fail", "200", "202"}

\* finaleditionjan14.py teams_action: requests.post(runCommand, script = commands)
\* and the response built from resp.status_code.  The host runs the script's
\* lines in order; a line's exit status does not change the HTTP status.
FinalPost(o, ended) ==
    /\ run.variant = "final" /\ run.pc = "post"
    /\ ended \in [1..run.n -> {"done", "failed"}]
    /\ run' = CASE o = "raise" ->
                     [run EXCEPT !.pc = "reported", !.ret = Ret("raised", {}),
                                 !.report = "error"]
                [] o = "fail" ->
                     [run EXCEPT !.pc = "reported", !.ret = Ret("status", {}),
                                 !.report = "exec_failed"]
                [] o = "200" ->
                     [run EXCEPT !.pc = "reported", !.ret = Ret("status", {}),
                                 !.host = ended, !.k = run.n + 1, !.report = "success"]
                [] OTHER ->
                     [run EXCEPT !.pc = "reported", !.ret = Ret("status", {}),
                                 !.host[1] = "running", !.conn = "open",
                                 !.report = "success"]
    /\ UNCHANGED <<finalVars, variantVars, extractVars, clockVars>>

\* The host: a running command ends, with status 0 or another
HostFinish(i, st) ==
    /\ i \in DOMAIN run.host /\ run.host[i] = "running"
    /\ run' = [run EXCEPT !.host[i] = st]
    /\ UNCHANGED <<finalVars, variantVars, extractVars, clockVars>>

\* The host: the SSH session is gone (closed or lost) and takes a running
\* command with it
HostKill(i) ==
    /\ run.variant \in {"v4", "v2"} /\ run.conn \in {"closed", "lost"}
    /\ i \in DOMAIN run.host /\ run.host[i] = "running"
    /\ run' = [run EXCEPT !.host[i] = "killed"]
    /\ UNCHANGED <<finalVars, variantVars, extractVars, clockVars>>

\* The host: the accepted script goes on to its next line
HostNextLine(i) ==
    /\ run.variant = "final"
    /\ i \in DOMAIN run.host /\ i + 1 \in DOMAIN run.host
    /\ run.host[i] \in {"done", "failed"} /\ run.host[i + 1] = "none"
    /\ run' = [run EXCEPT !.host[i + 1] = "running"]
    /\ UNCHANGED <<finalVars, variantVars, extractVars, clockVars>>

PlanLens == 1..MaxPlanLen

NextExecutor ==
    \/ \E v \in {"v4", "v2", "final"}, n \in PlanLens : RunStart(v, n)
    \/ \E o \in CallOutcomes : V4Connect(o)
    \/ \E o \in CallOutcomes : V4ExecCommand(o)
    \/ V4Close
    \/ V4Report
    \/ \E o \in CallOutcomes : V2Connect(o)
    \/ \E o \in CallOutcomes : V2ExecCommand(o)
    \/ V2Read
    \/ V2Close
    \/ V2Report
    \/ \E o \in PostOutcomes, n \in PlanLens :
          \E ended \in [1..n -> {"done", "failed"}] : FinalPost(o, ended)
    \/ \E i \in PlanLens, st \in {"done", "failed"} : HostFinish(i, st)
    \/ \E i \in PlanLens : HostKill(i)
    \/ \E i \in PlanLens : HostNextLine(i)

(***************************************************************************)
(* ver4.py approval_callback on one advisor text                           *)
(***************************************************************************)
Texts == TextsUpTo(MaxTextLen)

\* commands = [line for line in ai_solution.splitlines() if ...]
ExtractStep ==
    /\ xpc = "start"
    /\ xcommands' = ExtractCommands(xtext)
    /\ xpc' = "extracted"
    /\ UNCHANGED <<xtext, xran, finalVars, variantVars, clockVars, execVars>>

\* run_on_vm(commands)
RunStep ==
    /\ xpc = "extracted"
    /\ xran' = xcommands
    /\ xpc' = "ran"
    /\ UNCHANGED <<xtext, xcommands, finalVars, variantVars, clockVars, execVars>>

(***************************************************************************)
(* Specifications                                                          *)
(***************************************************************************)
InitRest ==
    /\ cur = IdleCur
    /\ v4cards = {}
    /\ xtext = << >>
    /\ xcommands = << >>
    /\ xran = << >>
    /\ xpc = "idle"
    /\ now = 0
    /\ createdAt = << >>
    /\ run = IdleRun

Init == InitFinal /\ InitRest

Spec == Init /\ [][Next]_vars

SpecVariants == Init /\ [][NextVariants]_vars

\* finaleditionjan14.py with time passing between the requests
ExpiryPayload == ObjectPayload(PyStr, PyStr, PyStr, PyList(<<"echo b">>))

NextExpiry ==
    \/ Tick
    \/ \E t \in Threads : AlertIngest(t, ExpiryPayload, "posted")
    \/ \E t \in Threads, f \in FixParams : TeamsActionCall(t, "run_fix", f)
    \/ \E t \in Threads : TeamsActionPop(t)
    \/ \E t \in Threads, o \in ExecOutcomes : TeamsActionExecute(t, o)
    \/ \E t \in Threads : HandlerReturn(t)

SpecExpiry == Init /\ [][NextExpiry]_vars

SpecExecutor == Init /\ [][NextExecutor]_vars

InitExtract ==
    /\ InitFinal
    /\ cur = IdleCur
    /\ v4cards = {}
    /\ xtext \in Texts
    /\ xcommands = << >>
    /\ xran = << >>
    /\ xpc = "start"
    /\ now = 0
    /\ createdAt = << >>
    /\ run = IdleRun

NextExtract == ExtractStep \/ RunStep

SpecExtract == InitExtract /\ [][NextExtract]_vars

(***************************************************************************)
(* Claims on finaleditionjan14.py (specification Spec)                     *)
(***************************************************************************)
Submissions(f) == {i \in DOMAIN vmLog : vmLog[i].fix_id = f}

\* The thread went through FIX_STORE.pop and got the entry.
Consumed(t) == thr[t].action = "run_fix" /\ thr[t].commands # PyUnset

\* C1: for every fix_id alert_ingest registered, whatever the number and the
\* interleaving of teams_action run_fix calls with that fix_id, the stored
\* command list is submitted to the VM's runCommand at most once.
C1_AtMostOnce == \A f \in FixIds : Cardinality(Submissions(f)) <= 1

\* Two calls passed the membership test for one fix_id before either popped it:
\* one submitted the commands, the other ran into the KeyError.
C1_Witness ==
    \E t1, t2 \in Threads :
        /\ t1 # t2
        /\ thr[t1].pc = "done" /\ thr[t1].action = "run_fix" /\ thr[t1].response = "success"
        /\ thr[t2].pc = "done" /\ thr[t2].action = "run_fix" /\ thr[t2].response = "error"
        /\ thr[t1].fix_id = thr[t2].fix_id
        /\ ~Consumed(t2)
        /\ Cardinality(Submissions(thr[t1].fix_id)) = 1

\* C2: of two concurrent run_fix calls for one registered fix_id, the one that
\* does not consume the entry is answered "Fix expired or not found", never
\* with a success, an execution-failed or an internal-error response.
C2_LoserGetsNotFound ==
    \A t \in Threads :
        (thr[t].pc = "done" /\ thr[t].action = "run_fix" /\ ~Consumed(t))
            => thr[t].response = "not_found"

\* C5: once the Reject link of a request's card has been followed and answered,
\* the request's fix_id is no longer in FIX_STORE.
C5_RejectRemovesEntry == \A f \in rejected : f \notin DOMAIN FIX_STORE

\* C6: every submission to the VM carries exactly the command list the request
\* was created with, whatever other requests were created or consumed meanwhile.
C6_RoundTrip ==
    \A i \in DOMAIN vmLog :
        /\ vmLog[i].fix_id \in DOMAIN issued
        /\ vmLog[i].script = issued[vmLog[i].fix_id]

\* Request 2 was created after request 1, with other commands, and run before it.
C6_Witness ==
    /\ Len(vmLog) = 2
    /\ vmLog[1].fix_id = 2 /\ vmLog[2].fix_id = 1
    /\ issued[1] = PyList(<<"echo a", "echo b">>)
    /\ issued[2] = PyList(<<"echo b">>)
    /\ vmLog[2].script = PyList(<<"echo a", "echo b">>)

NonEmptyList(c) == c.t = "list" /\ Len(c.v) > 0

\* C7: every entry of FIX_STORE holds a non-empty command list, and a payload
\* whose commands field is missing, null, not a list or an empty list is
\* answered with a 400 and given no fix_id.
C7_NonEmptyCommands ==
    /\ \A f \in DOMAIN FIX_STORE : NonEmptyList(FIX_STORE[f])
    /\ \A t \in Threads :
        (/\ thr[t].pc = "done" /\ thr[t].action = "alert_ingest"
         /\ thr[t].commands # PyUnset /\ ~NonEmptyList(thr[t].commands))
            => /\ thr[t].response \in {"missing_fields", "bad_commands"}
               /\ thr[t].fix_id = 0

\* An empty list and a string were both turned down while a request is pending.
C7_Witness ==
    /\ DOMAIN FIX_STORE # {}
    /\ \E t1, t2 \in Threads :
        /\ thr[t1].pc = "done" /\ thr[t1].action = "alert_ingest"
        /\ thr[t1].commands = PyList(<< >>) /\ thr[t1].response = "missing_fields"
        /\ thr[t2].pc = "done" /\ thr[t2].action = "alert_ingest"
        /\ thr[t2].commands = PyStr /\ thr[t2].response = "bad_commands"

\* C13: a run_fix call whose fix_id is missing, was never issued or is already
\* consumed when the call arrives is answered "Fix expired or not found" at
\* once: FIX_STORE and the VM submissions are left as they were, and the call
\* holds no command list and never reaches the credential request.
C13_UnknownIdNoSideEffects ==
    [][\A t \in Threads :
          (/\ thr[t].pc = "idle" /\ thr'[t].pc # "idle"
           /\ thr'[t].action = "run_fix"
           /\ thr'[t].fix_id \notin DOMAIN FIX_STORE)
             => /\ thr'[t].pc = "done" /\ thr'[t].response = "not_found"
                /\ thr'[t].commands = PyUnset
                /\ FIX_STORE' = FIX_STORE
                /\ vmLog' = vmLog]_vars

\* A request was run, its fix_id was then used again and turned down, while
\* another request stays pending untouched.
C13_Witness ==
    \E t \in Threads, f \in FixIds, g \in FixIds :
        /\ thr[t].pc = "done" /\ thr[t].action = "run_fix"
        /\ thr[t].fix_id = f /\ thr[t].response = "not_found"
        /\ f \in DOMAIN issued /\ f \notin DOMAIN FIX_STORE
        /\ Cardinality(Submissions(f)) = 1
        /\ g \in DOMAIN FIX_STORE /\ FIX_STORE[g] = issued[g]

\* The age of the pending request f.
Age(f) == now - createdAt[f]

\* C15: a run_fix call for a pending request older than MaxAge is answered
\* "Fix expired or not found", and no request older than MaxAge is taken out of
\* FIX_STORE for execution.
C15_ExpiredNotConsumable ==
    [][\A t \in Threads :
          /\ (/\ thr[t].pc = "idle" /\ thr'[t].pc # "idle"
              /\ thr'[t].action = "run_fix"
              /\ thr'[t].fix_id \in DOMAIN FIX_STORE
              /\ Age(thr'[t].fix_id) > MaxAge)
                => thr'[t].pc = "done" /\ thr'[t].response = "not_found"
          /\ (thr[t].pc = "pop" /\ thr'[t].pc = "execute")
                => Age(thr[t].fix_id) <= MaxAge]_vars

\* Requests f and g were created by deliveries of one and the same alert payload
\* (the payloads alert_ingest stores differ in their commands only).
SameAlert(f, g) == f # g /\ issued[f] = issued[g]

\* C16: when one alert payload is delivered to alert_ingest more than once, at
\* most one request is pending for it and its plan is submitted to the VM for
\* at most one of the requests.
C16_NoDuplicateInFlight ==
    \A f, g \in DOMAIN issued :
        SameAlert(f, g)
            => /\ ~(f \in DOMAIN FIX_STORE /\ g \in DOMAIN FIX_STORE)
               /\ ~(Submissions(f) # {} /\ Submissions(g) # {})

\* C19: an execution attempt starts only by taking a present entry out of
\* FIX_STORE; the entry of a consumed fix_id is absent from then on, whatever
\* the outcome of the execution (success, non-2xx status, credential error,
\* timeout); so no fix_id is ever attempted a second time.
C19_NoAutomaticRetry ==
    [][/\ \A t \in Threads :
            /\ (thr'[t].action = "run_fix" /\ thr'[t].commands # PyUnset)
                  => thr'[t].fix_id \notin DOMAIN FIX_STORE'
            /\ (thr[t].pc # "execute" /\ thr'[t].pc = "execute")
                  => thr[t].pc = "pop" /\ thr[t].fix_id \in DOMAIN FIX_STORE
       /\ \A f \in DOMAIN issued :
            f \notin DOMAIN FIX_STORE => f \notin DOMAIN FIX_STORE']_vars

\* An execution ended with a non-2xx status; its fix_id was then used again
\* and turned down, and the commands were submitted to the VM just once.
C19_Witness ==
    \E t1, t2 \in Threads :
        /\ thr[t1].pc = "done" /\ Consumed(t1) /\ thr[t1].response = "exec_failed"
        /\ thr[t1].fix_id \notin DOMAIN FIX_STORE
        /\ thr[t2].pc = "done" /\ thr[t2].action = "run_fix"
        /\ thr[t2].response = "not_found"
        /\ thr[t2].fix_id = thr[t1].fix_id
        /\ Cardinality(Submissions(thr[t1].fix_id)) = 1

\* C23: alert_ingest answers {sent: true, fix_id} only when the card of that
\* fix_id was posted to the channel, and every fix_id pending in FIX_STORE has
\* a posted card.
C23_NoOrphanedPending ==
    /\ \A t \in Threads :
          (/\ thr[t].pc = "done" /\ thr[t].action = "alert_ingest"
           /\ thr[t].response = "sent")
              => thr[t].fix_id \in cards
    /\ \A f \in DOMAIN FIX_STORE : f \in cards

(***************************************************************************)
(* Claims on ver1.py, ver2.py, ver4.py, ver5.py (specification             *)
(* SpecVariants)                                                           *)
(***************************************************************************)
\* Commands were run on the target host by the request handled last.
Executed(i) ==
    /\ cur.trace[i].call = "exec"
    /\ cur.trace[i].kind \in {"ok", "failed"}
    /\ cur.trace[i].cmds # << >>

\* The request handled last acts on a plan the repository lookup returned.
ActsOnVettedPlan == cur.sop.kind \in {"commands", "plan"}

\* C3: with no vetted procedure, commands run on the host only on the approval
\* of a request the workflow itself issued a card for; a callback that matches
\* no issued card, or brings its own plan text, runs nothing.  (ver4's
\* approval_callback makes no lookup: the plan is the text of its body.)
C3_ApprovalGate ==
    \A i \in DOMAIN cur.trace :
        (Executed(i) /\ ~ActsOnVettedPlan) => cur.fromCard

\* C4: a decision callback whose decision is reject runs no command on the host.
C4_RejectNeverExecutes ==
    cur.decision = "reject" => \A i \in DOMAIN cur.trace : ~Executed(i)

VettedFound(ev) == ev.call = "lookup" /\ ev.kind \in {"commands", "plan"}
LookupMiss(ev) == ev.call = "lookup" /\ ev.kind \in {"404", "500", "empty"}

\* C10: in every handler that consults the repository (ver4 alert_receiver, ver2
\* and ver1 approval_callback, ver5 agent_webhook), a lookup that finds a vetted
\* plan is followed by no advisor call and only the vetted commands are run;
\* the advisor is called only after a lookup that found no plan.
C10_VettedPlanWins ==
    /\ \A i \in DOMAIN cur.trace :
          cur.trace[i].call = "advisor"
             => \E j \in 1..(i - 1) : LookupMiss(cur.trace[j])
    /\ \A j \in DOMAIN cur.trace :
          VettedFound(cur.trace[j])
             => \A i \in DOMAIN cur.trace :
                   /\ cur.trace[i].call # "advisor"
                   /\ cur.trace[i].call = "exec" => cur.trace[i].cmds = cur.trace[j].cmds

\* ver4 alert_receiver found the vetted plan, ran it and reported it.
C10_Witness ==
    /\ cur.handler = "v4_alert_receiver" /\ cur.response = "auto remediated"
    /\ Len(cur.trace) = 3
    /\ VettedFound(cur.trace[1]) /\ cur.trace[1].cmds = <<"echo a", "echo b">>
    /\ cur.trace[2] = Ev("exec", "ok", <<"echo a", "echo b">>, << >>)

\* The channel got a message after event i of the request handled last.
NotifiedAfter(i) ==
    \E j \in (i + 1)..Len(cur.trace) :
        cur.trace[j].call = "notify" /\ cur.trace[j].kind # "raise"

\* C11: an approved request whose execution was attempted does not end without
\* a message to the channel, whether the execution succeeded, failed or raised.
C11_TerminalNotification ==
    (/\ cur.pc = "done" /\ cur.decision = "approve"
     /\ cur.handler \in {"v4_approval_callback", "v2_approval_callback"})
        => \A i \in DOMAIN cur.trace :
              (cur.trace[i].call = "exec" /\ cur.trace[i].cmds # << >>) => NotifiedAfter(i)

\* C12: when ver4 alert_receiver runs a vetted plan and the executor raises or a
\* command fails, the channel is told of the failure, and never told
\* "Auto-remediated".
C12_AutoFailureReported ==
    (cur.handler = "v4_alert_receiver" /\ cur.pc = "done")
        => \A i \in DOMAIN cur.trace :
              (/\ cur.trace[i].call = "exec" /\ cur.trace[i].kind # "ok"
               /\ cur.trace[i].cmds # << >>)
                 => /\ NotifiedAfter(i)
                    /\ \A j \in DOMAIN cur.trace :
                          ~(cur.trace[j].call = "notify"
                            /\ cur.trace[j].kind = "auto_remediated")

DecisionCallbacks ==
    {"v1_approval_callback", "v2_approval_callback", "v4_approval_callback",
     "v5_approval_callback"}

\* The decision payload handled last is no JSON, or lacks the decision or the
\* incident, or carries a decision that is neither approve nor reject.
MalformedDecision ==
    /\ cur.handler \in DecisionCallbacks
    /\ \/ cur.body = "invalid"
       \/ cur.decision \in {"none", "other"}
       \/ cur.incident = "none"

\* C14: a malformed or incomplete decision payload is answered with a 400 and
\* causes no lookup, no advisor call, no execution and no notification.
C14_InvalidInputRejected ==
    MalformedDecision
        => /\ cur.trace = << >>
           /\ cur.pc = "done" => cur.response \in {"400 missing", "400 invalid"}

\* The request handled last asked the advisor while no API key was configured.
AdvisorUnconfigured ==
    \E i \in DOMAIN cur.trace :
        cur.trace[i].call = "advisor" /\ cur.trace[i].kind = "unconfigured"

\* C17: when ver4 alert_receiver finds no vetted plan and the advisor has no API
\* key, no approval card is sent and the answer is not "approval sent"; and the
\* approval of a card that carries the not-configured sentence reports no
\* execution.
C17_AdvisorUnavailable ==
    /\ (cur.handler = "v4_alert_receiver" /\ AdvisorUnconfigured)
          => /\ cur.response # "approval sent"
             /\ \A j \in DOMAIN cur.trace :
                   ~(cur.trace[j].call = "notify" /\ cur.trace[j].kind = "needs_approval")
    /\ (/\ cur.handler = "v4_approval_callback" /\ cur.fromCard
        /\ cur.text = UnconfiguredText)
          => \A j \in DOMAIN cur.trace :
                ~(cur.trace[j].call = "notify" /\ cur.trace[j].kind = "approved_executed")

\* The repository lookup, event i of the request handled last, raised or was
\* answered with a server error.
RepositoryFailed(i) ==
    cur.trace[i].call = "lookup" /\ cur.trace[i].kind \in {"raise", "500"}

\* A collaborator call of the request handled last failed.
CollaboratorFailed ==
    \E i \in DOMAIN cur.trace :
        RepositoryFailed(i) \/ cur.trace[i].kind \in {"raise", "error"}

\* C18: no handler lets a collaborator's failure escape: every request is
\* answered by the handler itself, and a repository failure is followed by the
\* advisor call as a miss is.
C18_FailuresCaught ==
    cur.pc = "done"
        => /\ CollaboratorFailed => cur.response # "crash"
           /\ \A i \in DOMAIN cur.trace :
                 RepositoryFailed(i)
                    => \E j \in (i + 1)..Len(cur.trace) : cur.trace[j].call = "advisor"

\* The request handled last is an alert whose incident has a non-empty vetted
\* plan, in the document layout the variant reads (ver4 "commands", ver5 "plan").
IntakeOfVettedPlan ==
    /\ cur.sop.cmds # << >>
    /\ \/ cur.handler = "v4_alert_receiver" /\ cur.sop.kind = "commands"
       \/ cur.handler = "v5_agent_webhook" /\ cur.sop.kind = "plan"

\* Policy A: the executor was called.
AutoRuns == {i \in DOMAIN cur.trace : cur.trace[i].call = "exec"}

\* Policy B: the approval card was handed to the notifier (a notifier call that
\* raised with no executor call before it was the approval card's).
CardSends ==
    {i \in DOMAIN cur.trace :
        /\ cur.trace[i].call = "notify"
        /\ \/ cur.trace[i].kind = "needs_approval"
           \/ cur.trace[i].kind = "raise" /\ \A j \in 1..(i - 1) : cur.trace[j].call # "exec"}

StartedOnHost == {i \in DOMAIN run.host : run.host[i] # "none"}

\* C21: when run_on_vm or run_remote_commands stops on an exception, what it
\* gives its caller names the commands that were already started on the host.
C21_NoSilentPartialApply ==
    (/\ run.variant \in {"v4", "v2"} /\ run.pc \in {"returned", "reported"}
     /\ run.ret.kind \in {"raised", "error"})
        => run.ret.ran = StartedOnHost

\* C22: within one run a command is started only when every command before it
\* in the list has ended, so no two commands of a plan run at the same time.
C22_OneAfterAnother ==
    \A i, j \in DOMAIN run.host :
        (i < j /\ run.host[j] # "none") => run.host[i] \in {"done", "failed", "killed"}

\* C24: the success report ("Auto-remediated", "Approved & Executed", "Fix
\* executed successfully") is made only when every command of the plan has
\* ended on the host with status 0.
C24_SuccessOnlyAfterCompletion ==
    run.report = "success" => \A i \in DOMAIN run.host : run.host[i] = "done"

(***************************************************************************)
(* Claim on the command extraction (specification SpecExtract)             *)
(***************************************************************************)
\* The lines of xtext, stated on the positions of its line breaks.
LineStarts == {a \in 1..Len(xtext) : a = 1 \/ xtext[a - 1] = "nl"}

LineEnd(a) ==
    CHOOSE b \in (a - 1)..Len(xtext) :
        /\ \A j \in a..b : xtext[j] # "nl"
        /\ b = Len(xtext) \/ xtext[b + 1] = "nl"

LineAt(a) == SubSeq(xtext, a, LineEnd(a))

\* the line's first token is sudo
BeginsWithSudo(a) == a <= LineEnd(a) /\ xtext[a] = "sudo"

\* the line's first token after any leading white space is sudo
BeginsWithSudoAfterBlanks(a) ==
    \E k \in a..LineEnd(a) : xtext[k] = "sudo" /\ \A j \in a..(k - 1) : xtext[j] = "sp"

\* The lines that start at the positions S, in the order of the text.
NthOf(S, i) == CHOOSE a \in S : Cardinality({b \in S : b < a}) = i - 1
LinesAt(S) == [i \in 1..Cardinality(S) |-> LineAt(NthOf(S, i))]

ScenarioText == <<"sudo", "sp", "txt", "nl", "txt">>
ScenarioCommands == << <<"sudo", "sp", "txt">> >>

\* C9 as claimed: the extracted list is the lines that begin with sudo, in
\* order, and approval runs exactly that list.
C9_LinesBeginningWithSudo ==
    /\ xpc \in {"extracted", "ran"}
          => xcommands = LinesAt({a \in LineStarts : BeginsWithSudo(a)})
    /\ xpc = "ran" => xran = xcommands

\* C9 as amended: the extracted list is the lines whose text begins with sudo
\* once leading white space is stripped, each kept as written, in order; the
\* scenario text gives its single sudo line; approval runs exactly that list.
C9_LinesBeginningWithSudoAfterBlanks ==
    /\ xpc \in {"extracted", "ran"}
          => /\ xcommands = LinesAt({a \in LineStarts : BeginsWithSudoAfterBlanks(a)})
             /\ xtext = ScenarioText => xcommands = ScenarioCommands
    /\ xpc = "ran" => xran = xcommands

\* The scenario of the specification: one sudo line kept, the prose line dropped.
C9_Witness ==
    /\ xpc = "ran"
    /\ xtext = ScenarioText
    /\ xran = ScenarioCommands

====
